---- MODULE Spec2Model ----
(***************************************************************************)
(* Model of the Materials Explainer backend (src/main.py): module start-up *)
(* (environment keys, external clients) and the four routes /, /healthz,   *)
(* /api/materials and /api/explain, handled concurrently by the server's   *)
(* worker threads.                                                         *)
(*                                                                         *)
(* Text is modelled as a sequence of tokens (<<>> is the empty string), an *)
(* Optional[str] as a set holding at most one text ({} is None).           *)
(***************************************************************************)
EXTENDS Integers, Sequences, FiniteSets, TLC

\* ------------------------------------------------------------------------
\* Bounds of the model
\* ------------------------------------------------------------------------
MaxLimit == 2
MaxDocs == 2
MaxChoices == 1

\* Default of MaterialsQuery.limit
DefaultLimit == 20

\* Request slots handled concurrently by the server's worker threads (the
\* handlers are plain "def" routes, which the server runs in a thread pool).
\* The handlers are the same for every slot, so two slots show every way one
\* request can affect another.
Req == {"r1", "r2"}

\* ------------------------------------------------------------------------
\* Python values
\* ------------------------------------------------------------------------
None == {}
Some(s) == {s}
Value(o) == CHOOSE s \in o : TRUE

\* Python truthiness of an Optional[str]: None and "" are falsy.
Truthy(o) == o # None /\ o # Some(<<>>)

\* The weaker test "o is not None", which lets "" through.
IsNotNone(o) == o # None

Min(a, b) == IF a <= b THEN a ELSE b
Max(a, b) == IF a >= b THEN a ELSE b

\* needle occurs in hay as a contiguous run of tokens
Contains(hay, needle) ==
    \E i \in 1..(Len(hay) + 1) :
        /\ i + Len(needle) - 1 <= Len(hay)
        /\ SubSeq(hay, i, i + Len(needle) - 1) = needle

\* hay ends with tail
EndsWith(hay, tail) ==
    /\ Len(tail) <= Len(hay)
    /\ SubSeq(hay, Len(hay) - Len(tail) + 1, Len(hay)) = tail

\* hay starts with head
StartsWith(hay, head) ==
    /\ Len(head) <= Len(hay)
    /\ SubSeq(hay, 1, Len(head)) = head

\* Python s[:n] on a list: negative n counts from the end.
PySlice(s, n) ==
    IF n >= 0 THEN SubSeq(s, 1, Min(n, Len(s)))
    ELSE SubSeq(s, 1, Max(Len(s) + n, 0))

\* ------------------------------------------------------------------------
\* Environment and start-up (module-level code)
\* ------------------------------------------------------------------------
KeyValues == {None, Some(<<>>), Some(<<"key">>)}

VARIABLES
    environ,      \* os.environ restricted to the two keys
    boot,         \* position in the module-level code
    mpr,          \* Materials Project client, None until constructed
    oa_client     \* OpenAI client, None until constructed

bootVars == <<environ, boot, mpr, oa_client>>

VARIABLES
    route,        \* route[r]: path of the request handled in slot r
    q,            \* q[r]: the MaterialsQuery of a /api/materials request
    req,          \* req[r]: the ExplainRequest of a /api/explain request
    pc,           \* pc[r]: position of the handler
    docs,         \* docs[r]: local of the search helper
    completion,   \* completion[r]: local of explain_material
    resp,         \* resp[r]: the HTTP response
    mp_calls,     \* mp_calls[r]: searches issued to the materials database
    oa_calls,     \* oa_calls[r]: chat completions issued to the LLM provider
    reply         \* reply[r]: what the external service answered to r's call

reqVars == <<route, q, req, pc, docs, completion, resp, mp_calls, oa_calls, reply>>
vars == <<environ, boot, mpr, oa_client, route, q, req, pc, docs, completion,
          resp, mp_calls, oa_calls, reply>>

MP_API_KEY == environ.MP_API_KEY
OPENAI_API_KEY == environ.OPENAI_API_KEY

BootInit ==
    /\ environ \in [MP_API_KEY : KeyValues, OPENAI_API_KEY : KeyValues]
    /\ boot = "check_mp"
    /\ mpr = None
    /\ oa_client = None

\* if not MP_API_KEY: raise RuntimeError
CheckMpKey ==
    /\ boot = "check_mp"
    /\ boot' = IF ~Truthy(MP_API_KEY) THEN "failed" ELSE "check_oa"
    /\ UNCHANGED <<environ, mpr, oa_client>>
    /\ UNCHANGED reqVars

\* Variant of CheckOaKey that only rejects an unset key ("is None").
CheckOaKeyNoneOnly ==
    /\ boot = "check_oa"
    /\ boot' = IF ~IsNotNone(OPENAI_API_KEY) THEN "failed" ELSE "make_mpr"
    /\ UNCHANGED <<environ, mpr, oa_client>>
    /\ UNCHANGED reqVars

\* if not OPENAI_API_KEY: raise RuntimeError
CheckOaKey ==
    /\ boot = "check_oa"
    /\ boot' = IF ~Truthy(OPENAI_API_KEY) THEN "failed" ELSE "make_mpr"
    /\ UNCHANGED <<environ, mpr, oa_client>>
    /\ UNCHANGED reqVars

\* mpr = MPRester(MP_API_KEY)
MakeMpr ==
    /\ boot = "make_mpr"
    /\ mpr' = Some([api_key |-> Value(MP_API_KEY)])
    /\ boot' = "make_oa"
    /\ UNCHANGED <<environ, oa_client>>
    /\ UNCHANGED reqVars

\* oa_client = OpenAI(api_key=OPENAI_API_KEY); the app is then served
MakeOaClient ==
    /\ boot = "make_oa"
    /\ oa_client' = Some([api_key |-> Value(OPENAI_API_KEY)])
    /\ boot' = "serving"
    /\ UNCHANGED <<environ, mpr>>
    /\ UNCHANGED reqVars

\* ------------------------------------------------------------------------
\* Request models (pydantic) and their inputs
\* ------------------------------------------------------------------------
Limits == ((0 - MaxLimit)..MaxLimit) \cup {DefaultLimit}

\* A JSON body field is absent ({}) or present with a value ({v}); a present
\* Optional[str] is null (None) or a text.
Absent == {}
Present(v) == {v}

ChemsysTexts == {<<>>, <<"Li-Fe-O">>}
FormulaTexts == {<<>>, <<"LiFePO4">>}

OptField(texts) == {Absent, Present(None)} \cup {Present(Some(t)) : t \in texts}

MaterialsBodies ==
    [chemsys : OptField(ChemsysTexts),
     formula : OptField(FormulaTexts),
     limit : {Absent} \cup {Present(n) : n \in Limits \ {DefaultLimit}}]

\* The field's value, or the model's default when the body omits it.
FieldOr(f, default) == IF f = Absent THEN default ELSE Value(f)

\* class MaterialsQuery(BaseModel)
MaterialsQuery(body) ==
    [chemsys |-> FieldOr(body.chemsys, None),
     formula |-> FieldOr(body.formula, None),
     limit |-> FieldOr(body.limit, DefaultLimit)]

\* raw_data is an insertion-ordered JSON object: a sequence of <<key, value>>
\* with value = [t |-> JSON type, v |-> literal text].
RawDatas ==
    { <<>>,
      << <<"band_gap", [t |-> "num", v |-> "1.1"]>> >>,
      << <<"formula_pretty", [t |-> "str", v |-> "Si"]>>,
         <<"is_stable", [t |-> "bool", v |-> "true"]>> >> }

QuestionTexts == {<<>>, <<"Is this a semiconductor?">>}

ExplainBodies ==
    [raw_data : RawDatas, question : OptField(QuestionTexts)]

\* class ExplainRequest(BaseModel)
ExplainRequest(body) ==
    [raw_data |-> body.raw_data,
     question |-> FieldOr(body.question, None)]

NoQuery == [chemsys |-> None, formula |-> None, limit |-> 0]
NoExplain == [raw_data |-> <<>>, question |-> None]

\* ------------------------------------------------------------------------
\* json.dumps(obj, indent=2)
\* ------------------------------------------------------------------------
JsonValue(val) ==
    IF val.t = "str" THEN <<"\"", val.v, "\"">> ELSE <<val.v>>

RECURSIVE JsonItems(_)
JsonItems(items) ==
    IF items = <<>> THEN <<>>
    ELSE LET kv == Head(items)
         IN  <<"\n  ", "\"", kv[1], "\"", ": ">> \o JsonValue(kv[2])
             \o (IF Tail(items) = <<>> THEN <<>> ELSE <<",">>)
             \o JsonItems(Tail(items))

JsonDumps(obj) ==
    IF obj = <<>> THEN <<"{}">>
    ELSE <<"{">> \o JsonItems(obj) \o <<"\n", "}">>

\* ------------------------------------------------------------------------
\* Prompt construction of explain_material
\* ------------------------------------------------------------------------
system_prompt ==
    <<"You are a materials scientist. ",
      "You are given JSON data from the Materials Project v2 API. ",
      "Explain it to a smart non-expert. ",
      "Use clear language but keep the scientific meaning accurate. ",
      "Highlight formula, chemical system, band gap (insulator vs semiconductor vs metal), ",
      "density, and stability, and briefly relate these to possible applications.">>

PromptIntro == <<"Here is one materials JSON entry:\n\n">>
QuestionLead == <<"\n\nUser question: ">>
DefaultInstruction ==
    <<"\n\nExplain the most important properties, their approximate values, ",
      "and what they imply physically and technologically.">>

QuestionTail(question) == QuestionLead \o question \o <<"\n">>

\* Variant of UserPrompt that appends the default instruction after a question.
UserPromptBothTails(request) ==
    PromptIntro \o JsonDumps(request.raw_data)
    \o (IF request.question # None THEN QuestionTail(Value(request.question)) ELSE <<>>)
    \o DefaultInstruction

\* user_prompt: introduction, json.dumps(raw_data), then one tail
UserPrompt(request) ==
    PromptIntro \o JsonDumps(request.raw_data)
    \o (IF Truthy(request.question)
        THEN QuestionTail(Value(request.question))
        ELSE DefaultInstruction)

ChatCall(request) ==
    [model |-> "gpt-4.1-mini",
     temperature |-> "0.4",
     messages |-> << [role |-> "system", content |-> system_prompt],
                     [role |-> "user", content |-> UserPrompt(request)] >>]

\* ------------------------------------------------------------------------
\* External services: what a call may answer
\* ------------------------------------------------------------------------
\* The fields requested from the Materials Project summary endpoint.
SearchFields ==
    <<"material_id", "formula_pretty", "chemsys", "band_gap", "density", "is_stable">>

\* A returned document is a pydantic v2 document (it has model_dump), or an
\* object without that method (a plain dict, a pydantic v1 document), on
\* which d.model_dump() raises AttributeError.
Doc(i, cls) == [cls |-> cls, fields |-> [material_id |-> i]]

\* n documents, the bad-th of them (if any) a plain dict
DocList(n, bad) == [i \in 1..n |-> Doc(i, IF i = bad THEN "dict" ELSE "SummaryDoc")]

DocLists == {DocList(n, bad) : n \in 0..MaxDocs, bad \in 0..MaxDocs}

\* Faults a client library raises (authentication, rate limit, network).
ClientFaults == {<<"401 Unauthorized">>, <<"Connection timed out">>}

\* A completion carries a list of choices, each with a message content.
Completions ==
    {[choices |-> [i \in 1..n |-> <<"answer ", "text">>]] : n \in 0..MaxChoices}

\* str(exc) of the exceptions raised by the handler's own code
AttributeErrorText == <<"'dict' object has no attribute 'model_dump'">>
IndexErrorText == <<"list index out of range">>

\* d.model_dump()
ModelDump(d) == d.fields

NoReply == [kind |-> "none"]
NoResponse == [status |-> 0, kind |-> "none", payload |-> <<>>]

\* raise HTTPException(status_code=..., detail=...)
HTTPException(status, detail) == [status |-> status, kind |-> "detail", payload |-> detail]
JsonResponse(kind, payload) == [status |-> 200, kind |-> kind, payload |-> payload]

\* ------------------------------------------------------------------------
\* Outcome of an adapter: a returned value or a raised exception
\* ------------------------------------------------------------------------
Return(v) == [kind |-> "return", value |-> v]
RaiseHTTP(status, detail) == [kind |-> "raise", cls |-> "HTTPException", status |-> status, text |-> detail]
RaiseOther(cls, text) == [kind |-> "raise", cls |-> cls, status |-> 0, text |-> text]

\* The body of the try block of search_by_chemsys / search_by_formula after
\* the client answered: [d.model_dump() for d in docs[:limit]]
DumpSlice(ds, limit) ==
    LET part == PySlice(ds, limit)
    IN  IF \E i \in 1..Len(part) : part[i].cls # "SummaryDoc"
        THEN RaiseOther("AttributeError", AttributeErrorText)
        ELSE Return([i \in 1..Len(part) |-> ModelDump(part[i])])

\* Variant of SearchExcept without the except clause: the fault propagates raw.
SearchExceptUncaught(out) == out

\* except Exception as exc: raise HTTPException(502, f"Materials Project error: {exc}")

SearchExcept(out) ==
    IF out.kind = "raise"
    THEN RaiseHTTP(502, <<"Materials Project error: ">> \o out.text)
    ELSE out

\* try/except of get_materials around the helper call
GetMaterialsExcept(out) ==
    IF out.kind = "return" THEN JsonResponse("data", out.value)
    ELSE IF out.cls = "HTTPException" THEN HTTPException(out.status, out.text)
    ELSE HTTPException(500, out.text)

\* Variant of ExplainExcept whose detail drops the text of the fault.
ExplainExceptGeneric(out) ==
    IF out.kind = "return" THEN JsonResponse("answer", out.value)
    ELSE HTTPException(502, <<"OpenAI error">>)

\* except Exception as exc: raise HTTPException(502, f"OpenAI error: {exc}")
ExplainExcept(out) ==
    IF out.kind = "return" THEN JsonResponse("answer", out.value)
    ELSE HTTPException(502, <<"OpenAI error: ">> \o out.text)

\* completion.choices[0].message.content
FirstChoice(c) ==
    IF Len(c.choices) = 0
    THEN RaiseOther("IndexError", IndexErrorText)
    ELSE Return(c.choices[1])

\* ------------------------------------------------------------------------
\* Requests in flight
\* ------------------------------------------------------------------------
Routes == {"/", "/healthz", "/api/materials", "/api/explain"}

NoCompletion == [choices |-> <<>>]

Init ==
    /\ BootInit
    /\ route = [r \in Req |-> "none"]
    /\ q = [r \in Req |-> NoQuery]
    /\ req = [r \in Req |-> NoExplain]
    /\ pc = [r \in Req |-> "idle"]
    /\ docs = [r \in Req |-> <<>>]
    /\ completion = [r \in Req |-> NoCompletion]
    /\ resp = [r \in Req |-> NoResponse]
    /\ mp_calls = [r \in Req |-> <<>>]
    /\ oa_calls = [r \in Req |-> <<>>]
    /\ reply = [r \in Req |-> NoReply]

\* The server accepts a request and routes it; the body is parsed into the
\* route's request model.
ReceiveGet(r) ==
    /\ boot = "serving"
    /\ pc[r] = "idle"
    /\ \E path \in {"/", "/healthz"} : route' = [route EXCEPT ![r] = path]
    /\ pc' = [pc EXCEPT ![r] = "handler"]
    /\ UNCHANGED <<bootVars, q, req, docs, completion, resp, mp_calls, oa_calls, reply>>

ReceiveMaterials(r) ==
    /\ boot = "serving"
    /\ pc[r] = "idle"
    /\ route' = [route EXCEPT ![r] = "/api/materials"]
    /\ \E body \in MaterialsBodies : q' = [q EXCEPT ![r] = MaterialsQuery(body)]
    /\ pc' = [pc EXCEPT ![r] = "handler"]
    /\ UNCHANGED <<bootVars, req, docs, completion, resp, mp_calls, oa_calls, reply>>

ReceiveExplain(r) ==
    /\ boot = "serving"
    /\ pc[r] = "idle"
    /\ route' = [route EXCEPT ![r] = "/api/explain"]
    /\ \E body \in ExplainBodies : req' = [req EXCEPT ![r] = ExplainRequest(body)]
    /\ pc' = [pc EXCEPT ![r] = "handler"]
    /\ UNCHANGED <<bootVars, q, docs, completion, resp, mp_calls, oa_calls, reply>>

\* def root()
root(r) ==
    /\ pc[r] = "handler" /\ route[r] = "/"
    /\ resp' = [resp EXCEPT ![r] = JsonResponse("json",
                    <<"status", "ok", "message", "Materials Explainer backend running">>)]
    /\ pc' = [pc EXCEPT ![r] = "done"]
    /\ UNCHANGED <<bootVars, route, q, req, docs, completion, mp_calls, oa_calls, reply>>

\* def healthz()
healthz(r) ==
    /\ pc[r] = "handler" /\ route[r] = "/healthz"
    /\ resp' = [resp EXCEPT ![r] = JsonResponse("json", <<"ok", "true">>)]
    /\ pc' = [pc EXCEPT ![r] = "done"]
    /\ UNCHANGED <<bootVars, route, q, req, docs, completion, mp_calls, oa_calls, reply>>

\* Variant of MissingKey with the validation left out.
NeverMissing(query) == FALSE

\* if not q.chemsys and not q.formula
MissingKey(query) == ~Truthy(query.chemsys) /\ ~Truthy(query.formula)

\* Variant of ByChemsys that tests "q.chemsys is not None".
ByChemsysIfNotNone(query) == IsNotNone(query.chemsys)

\* if q.chemsys: ... else: ...
ByChemsys(query) == Truthy(query.chemsys)

\* get_materials: raise HTTPException(400) when no search key is supplied
GetMaterialsReject(r) ==
    /\ pc[r] = "handler" /\ route[r] = "/api/materials"
    /\ MissingKey(q[r])
    /\ resp' = [resp EXCEPT ![r] = HTTPException(400, <<"Provide 'chemsys' or 'formula'">>)]
    /\ pc' = [pc EXCEPT ![r] = "done"]
    /\ UNCHANGED <<bootVars, route, q, req, docs, completion, mp_calls, oa_calls, reply>>

\* search_by_chemsys: mpr.materials.summary.search(chemsys=..., fields=[...])
SearchByChemsysCall(r) ==
    /\ pc[r] = "handler" /\ route[r] = "/api/materials"
    /\ ~MissingKey(q[r])
    /\ ByChemsys(q[r])
    /\ mp_calls' = [mp_calls EXCEPT ![r] =
            Append(@, [chemsys |-> q[r].chemsys, fields |-> SearchFields])]
    /\ pc' = [pc EXCEPT ![r] = "mp_wait"]
    /\ UNCHANGED <<bootVars, route, q, req, docs, completion, resp, oa_calls, reply>>

\* search_by_formula: mpr.materials.summary.search(formula=..., fields=[...])
SearchByFormulaCall(r) ==
    /\ pc[r] = "handler" /\ route[r] = "/api/materials"
    /\ ~MissingKey(q[r])
    /\ ~ByChemsys(q[r])
    /\ mp_calls' = [mp_calls EXCEPT ![r] =
            Append(@, [formula |-> q[r].formula, fields |-> SearchFields])]
    /\ pc' = [pc EXCEPT ![r] = "mp_wait"]
    /\ UNCHANGED <<bootVars, route, q, req, docs, completion, resp, oa_calls, reply>>

\* Variant of SearchReturns that keeps docs in one module-level variable
\* shared by all requests.
SearchReturnsShared(r) ==
    /\ pc[r] = "mp_wait"
    /\ \E d \in DocLists :
        /\ docs' = [s \in Req |-> d]
        /\ reply' = [reply EXCEPT ![r] = [kind |-> "docs", docs |-> d]]
    /\ pc' = [pc EXCEPT ![r] = "mp_got"]
    /\ UNCHANGED <<bootVars, route, q, req, completion, resp, mp_calls, oa_calls>>

\* The search returns: docs = mpr.materials.summary.search(...)
SearchReturns(r) ==
    /\ pc[r] = "mp_wait"
    /\ \E d \in DocLists :
        /\ docs' = [docs EXCEPT ![r] = d]
        /\ reply' = [reply EXCEPT ![r] = [kind |-> "docs", docs |-> d]]
    /\ pc' = [pc EXCEPT ![r] = "mp_got"]
    /\ UNCHANGED <<bootVars, route, q, req, completion, resp, mp_calls, oa_calls>>

\* Variant of SearchRaises that issues the search again after a fault.
SearchRaisesRetry(r) ==
    /\ pc[r] = "mp_wait"
    /\ \E e \in ClientFaults :
        reply' = [reply EXCEPT ![r] = [kind |-> "raise", text |-> e]]
    /\ mp_calls' = [mp_calls EXCEPT ![r] = Append(@, @[Len(@)])]
    /\ UNCHANGED <<bootVars, route, q, req, pc, docs, completion, resp, oa_calls>>

\* The search raises: the helper wraps the fault, get_materials re-raises it.
SearchRaises(r) ==
    /\ pc[r] = "mp_wait"
    /\ \E e \in ClientFaults :
        /\ reply' = [reply EXCEPT ![r] = [kind |-> "raise", text |-> e]]
        /\ resp' = [resp EXCEPT ![r] =
                GetMaterialsExcept(SearchExcept(RaiseOther("Exception", e)))]
    /\ pc' = [pc EXCEPT ![r] = "done"]
    /\ UNCHANGED <<bootVars, route, q, req, docs, completion, mp_calls, oa_calls>>

\* return [d.model_dump() for d in docs[:limit]]; return {"data": data}
SearchFinish(r) ==
    /\ pc[r] = "mp_got"
    /\ resp' = [resp EXCEPT ![r] =
            GetMaterialsExcept(SearchExcept(DumpSlice(docs[r], q[r].limit)))]
    /\ pc' = [pc EXCEPT ![r] = "done"]
    /\ UNCHANGED <<bootVars, route, q, req, docs, completion, mp_calls, oa_calls, reply>>

\* explain_material: build the prompts, oa_client.chat.completions.create(...)
ExplainCall(r) ==
    /\ pc[r] = "handler" /\ route[r] = "/api/explain"
    /\ oa_calls' = [oa_calls EXCEPT ![r] = Append(@, ChatCall(req[r]))]
    /\ pc' = [pc EXCEPT ![r] = "oa_wait"]
    /\ UNCHANGED <<bootVars, route, q, req, docs, completion, resp, mp_calls, reply>>

\* The chat completion returns
ChatReturns(r) ==
    /\ pc[r] = "oa_wait"
    /\ \E c \in Completions :
        /\ completion' = [completion EXCEPT ![r] = c]
        /\ reply' = [reply EXCEPT ![r] = [kind |-> "completion", completion |-> c]]
    /\ pc' = [pc EXCEPT ![r] = "oa_got"]
    /\ UNCHANGED <<bootVars, route, q, req, docs, resp, mp_calls, oa_calls>>

\* The chat completion raises
ChatRaises(r) ==
    /\ pc[r] = "oa_wait"
    /\ \E e \in ClientFaults :
        /\ reply' = [reply EXCEPT ![r] = [kind |-> "raise", text |-> e]]
        /\ resp' = [resp EXCEPT ![r] = ExplainExcept(RaiseOther("Exception", e))]
    /\ pc' = [pc EXCEPT ![r] = "done"]
    /\ UNCHANGED <<bootVars, route, q, req, docs, completion, mp_calls, oa_calls>>

\* answer = completion.choices[0].message.content; return {"answer": answer}
ExplainFinish(r) ==
    /\ pc[r] = "oa_got"
    /\ resp' = [resp EXCEPT ![r] = ExplainExcept(FirstChoice(completion[r]))]
    /\ pc' = [pc EXCEPT ![r] = "done"]
    /\ UNCHANGED <<bootVars, route, q, req, docs, completion, mp_calls, oa_calls, reply>>

Next ==
    \/ CheckMpKey
    \/ CheckOaKey
    \/ MakeMpr
    \/ MakeOaClient
    \/ \E r \in Req : ReceiveGet(r)
    \/ \E r \in Req : ReceiveMaterials(r)
    \/ \E r \in Req : ReceiveExplain(r)
    \/ \E r \in Req : root(r)
    \/ \E r \in Req : healthz(r)
    \/ \E r \in Req : GetMaterialsReject(r)
    \/ \E r \in Req : SearchByChemsysCall(r)
    \/ \E r \in Req : SearchByFormulaCall(r)
    \/ \E r \in Req : SearchReturns(r)
    \/ \E r \in Req : SearchRaises(r)
    \/ \E r \in Req : SearchFinish(r)
    \/ \E r \in Req : ExplainCall(r)
    \/ \E r \in Req : ChatReturns(r)
    \/ \E r \in Req : ChatRaises(r)
    \/ \E r \in Req : ExplainFinish(r)

Spec == Init /\ [][Next]_vars

Done(r) == pc[r] = "done"

Searched(r) == route[r] = "/api/materials" /\ pc[r] \in {"mp_wait", "mp_got", "done"}
Failed(r) == Done(r) /\ resp[r].status >= 400
Succeeded(r) == Done(r) /\ resp[r].status = 200

\* ------------------------------------------------------------------------
\* Properties
\* ------------------------------------------------------------------------

\* C1: a /api/materials request whose chemsys and formula are both missing
\* (absent or null) is answered 400 by the gateway, and no call to an
\* external service is ever issued for it.
C1_MissingKeyRejected ==
    \A r \in Req :
        ( /\ route[r] = "/api/materials"
          /\ q[r].chemsys = None /\ q[r].formula = None
          /\ pc[r] # "handler" )
        => /\ Done(r)
           /\ resp[r].status = 400
           /\ mp_calls[r] = <<>>
           /\ oa_calls[r] = <<>>
           /\ reply[r] = NoReply

C1_Witness ==
    \E r \in Req :
        /\ route[r] = "/api/materials"
        /\ q[r].chemsys = None /\ q[r].formula = None
        /\ Done(r) /\ resp[r].status = 400

\* C2: a successful /api/materials response carries at most limit records,
\* for every integer limit the request model accepts.
C2_AtMostLimit ==
    \A r \in Req :
        (route[r] = "/api/materials" /\ Succeeded(r))
        => Len(resp[r].payload) <= q[r].limit

\* C3: when the outbound call of an adapter raises, the request ends with
\* status 502 and a detail that contains the text of the fault.
C3_FaultIs502 ==
    \A r \in Req :
        reply[r].kind = "raise"
        => /\ Done(r)
           /\ resp[r].status = 502
           /\ resp[r].kind = "detail"
           /\ Contains(resp[r].payload, reply[r].text)

C3_Witness ==
    \E r, s \in Req :
        /\ route[r] = "/api/materials" /\ reply[r].kind = "raise" /\ Done(r)
        /\ route[s] = "/api/explain" /\ reply[s].kind = "raise" /\ Done(s)

\* C4: the user message of the outbound prompt is the introduction, the
\* serialized raw_data and then exactly one tail: the question text when the
\* question is non-empty (and not the default instruction), the default
\* instruction when the question is absent (and no 'User question' part).
C4_PromptTail ==
    \A r \in Req : \A i \in 1..Len(oa_calls[r]) :
        LET call == oa_calls[r][i]
            user == call.messages[2]
            head == PromptIntro \o JsonDumps(req[r].raw_data)
            asked == EndsWith(user.content, <<"\n">>)
                     /\ Contains(user.content, QuestionLead)
            default == EndsWith(user.content, DefaultInstruction)
        IN  /\ Len(call.messages) = 2
            /\ call.messages[1] = [role |-> "system", content |-> system_prompt]
            /\ user.role = "user"
            /\ StartsWith(user.content, head)
            /\ asked # default
            /\ Truthy(req[r].question)
               => /\ user.content = head \o QuestionLead \o Value(req[r].question) \o <<"\n">>
                  /\ ~Contains(user.content, DefaultInstruction)
            /\ req[r].question = None
               => /\ user.content = head \o DefaultInstruction
                  /\ ~Contains(user.content, QuestionLead)

C4_Witness ==
    \E r, s \in Req :
        /\ oa_calls[r] # <<>> /\ Truthy(req[r].question) /\ req[r].raw_data # <<>>
        /\ oa_calls[s] # <<>> /\ req[s].question = None

\* C5: a request issues at most one outbound call, to the service of its
\* route only (none for / and /healthz), and a failed call is not retried:
\* the request is over with an error response as soon as the call raised.
C5_OneCallNoRetry ==
    \A r \in Req :
        /\ Len(mp_calls[r]) + Len(oa_calls[r]) <= 1
        /\ route[r] \in {"none", "/", "/healthz"} => mp_calls[r] = <<>> /\ oa_calls[r] = <<>>
        /\ route[r] = "/api/materials" => oa_calls[r] = <<>>
        /\ route[r] = "/api/explain" => mp_calls[r] = <<>>
        /\ reply[r].kind = "raise" => Failed(r)

C5_Witness ==
    \E r, s \in Req :
        /\ route[r] = "/api/materials" /\ reply[r].kind = "raise" /\ Failed(r)
        /\ Len(mp_calls[r]) = 1
        /\ route[s] = "/" /\ Done(s)

\* C6: a /api/materials request with chemsys c and limit L calls the
\* materials database exactly once with chemsys=c, the fixed field set and
\* limit=L, and its response then holds at most L records.
C6_LimitInQuery ==
    \A r \in Req :
        (Searched(r) /\ Truthy(q[r].chemsys))
        => /\ Len(mp_calls[r]) = 1
           /\ LET call == mp_calls[r][1]
              IN  /\ "chemsys" \in DOMAIN call
                  /\ call.chemsys = q[r].chemsys
                  /\ call.fields = SearchFields
                  /\ "limit" \in DOMAIN call
                  /\ call.limit = q[r].limit
           /\ Succeeded(r) => Len(resp[r].payload) <= q[r].limit

\* C7 (as stated): after validation, an upstream error (the client raised)
\* reaches the client as the adapter's 502, and every other failure -- one
\* raised by the service's own code although the database answered -- is
\* returned by the gateway as 500 with the stringified exception.
C7_OtherFailuresAre500 ==
    \A r \in Req :
        (route[r] = "/api/materials" /\ Failed(r) /\ mp_calls[r] # <<>>)
        => /\ reply[r].kind = "raise"
              => resp[r] = HTTPException(502, <<"Materials Project error: ">> \o reply[r].text)
           /\ reply[r].kind = "docs"
              => resp[r] = HTTPException(500, AttributeErrorText)

\* C7 (amended): after validation every failure of /api/materials, whether
\* the client raised or the conversion of the returned documents did, is
\* wrapped by the adapter and reaches the client unchanged as 502 with the
\* fault's text; the gateway's 500 conversion is never the outcome.
C7_AllFailuresAre502 ==
    \A r \in Req :
        /\ (route[r] = "/api/materials" /\ Failed(r) /\ mp_calls[r] # <<>>)
           => LET text == IF reply[r].kind = "raise" THEN reply[r].text
                          ELSE AttributeErrorText
              IN  resp[r] = HTTPException(502, <<"Materials Project error: ">> \o text)
        /\ route[r] = "/api/materials" => resp[r].status # 500

C7_Witness ==
    \E r, s \in Req :
        /\ route[r] = "/api/materials" /\ Failed(r) /\ reply[r].kind = "docs"
        /\ route[s] = "/api/materials" /\ Failed(s) /\ reply[s].kind = "raise"

\* C8: start-up fails when either API key is unset or empty: whenever a
\* client exists, the app is served or a request is handled, both keys were
\* present in the environment.
C8_KeysRequired ==
    ( \/ mpr # None
      \/ oa_client # None
      \/ boot \in {"make_mpr", "make_oa", "serving"}
      \/ \E r \in Req : pc[r] # "idle" )
    => /\ Truthy(MP_API_KEY)
       /\ Truthy(OPENAI_API_KEY)
       /\ boot # "failed"

C8_Witness ==
    /\ boot = "failed"
    /\ Truthy(MP_API_KEY)
    /\ OPENAI_API_KEY = Some(<<>>)
    /\ mpr = None /\ oa_client = None

\* The response a request must get from its own body and the reply to its
\* own outbound call alone.
OwnResponse(r) ==
    CASE route[r] = "/" ->
            JsonResponse("json", <<"status", "ok", "message", "Materials Explainer backend running">>)
      [] route[r] = "/healthz" -> JsonResponse("json", <<"ok", "true">>)
      [] route[r] = "/api/materials" ->
            IF ~Truthy(q[r].chemsys) /\ ~Truthy(q[r].formula)
            THEN HTTPException(400, <<"Provide 'chemsys' or 'formula'">>)
            ELSE IF reply[r].kind = "raise"
            THEN HTTPException(502, <<"Materials Project error: ">> \o reply[r].text)
            ELSE GetMaterialsExcept(SearchExcept(DumpSlice(reply[r].docs, q[r].limit)))
      [] route[r] = "/api/explain" ->
            IF reply[r].kind = "raise"
            THEN HTTPException(502, <<"OpenAI error: ">> \o reply[r].text)
            ELSE ExplainExcept(FirstChoice(reply[r].completion))

\* C9: requests are handled independently: under every interleaving, the
\* response of a request is determined by its own body and by the reply to
\* its own outbound call, and a request that has not finished has none.
C9_Independent ==
    \A r \in Req :
        IF Done(r) THEN resp[r] = OwnResponse(r) ELSE resp[r] = NoResponse

C9_Witness ==
    \E r, s \in Req :
        /\ r # s
        /\ Done(r) /\ Done(s)
        /\ route[r] = "/api/materials" /\ route[s] = "/api/materials"
        /\ q[r] = q[s]
        /\ reply[r].kind = "docs" /\ reply[s].kind = "docs"
        /\ resp[r] # resp[s]

\* C10: the search key is chosen by truthiness, chemsys first: a non-empty
\* chemsys issues the chemical-system search and formula is ignored; the
\* formula search is issued only when chemsys is None or "" and formula is
\* non-empty; when both are None or "" the request is rejected with 400.
C10_ChemsysFirst ==
    \A r \in Req :
        (route[r] = "/api/materials" /\ pc[r] # "handler")
        => /\ Truthy(q[r].chemsys)
              => mp_calls[r] = << [chemsys |-> q[r].chemsys, fields |-> SearchFields] >>
           /\ (~Truthy(q[r].chemsys) /\ Truthy(q[r].formula))
              => mp_calls[r] = << [formula |-> q[r].formula, fields |-> SearchFields] >>
           /\ (~Truthy(q[r].chemsys) /\ ~Truthy(q[r].formula))
              => /\ mp_calls[r] = <<>>
                 /\ resp[r] = HTTPException(400, <<"Provide 'chemsys' or 'formula'">>)

C10_Witness ==
    \E r, s \in Req :
        /\ Searched(r) /\ Truthy(q[r].chemsys) /\ Truthy(q[r].formula)
        /\ Searched(s) /\ q[s].chemsys = Some(<<>>) /\ Truthy(q[s].formula)

====
